---- MODULE Spec2Model ----
(***************************************************************************)
(* The email-reveal verification flow of powerium.io.                      *)
(*                                                                         *)
(*   revealEmail (api handler)        : token -> siteverify -> response    *)
(*   onloadTurnstileCallback (widget) : token -> /api/email-reveal -> DOM  *)
(*                                                                         *)
(* JavaScript values are modelled as follows.  An object is a record       *)
(* whose DOMAIN holds exactly the properties that are present; reading a   *)
(* property that is absent yields Undefined.  A template string is the     *)
(* sequence of its fragments, so that `mailto:${x}` is <<"mailto:", x>>.   *)
(* An async function is cut at its awaits: one action per continuation.    *)
(***************************************************************************)
EXTENDS Integers, Sequences, FiniteSets, TLC

\* ---------------------------------------------------------------- bounds
NumRequests == 2
Requests == 1..NumRequests

\* ------------------------------------------------------- values of the run
Undefined == "<undefined>"
Tokens == {"tok-a", "tok-b"}

\* process.env.CONTACT_EMAIL and process.env.CF_TURNSTILE_SECRET_KEY
CONTACT_EMAIL == "contact@example.com"
cfTurnstileSecretKey == "cf-secret"

expectedAction == "email-reveal"

\* Reading a property of a JavaScript object.
Get(obj, key) == IF key \in DOMAIN obj THEN obj[key] ELSE Undefined

\* JavaScript truthiness of a property that is a boolean when present:
\* an absent property reads as undefined, which is falsy.
Truthy(obj, key) == key \in DOMAIN obj /\ obj[key]

\* Array.prototype.join(',') as done by `${array}`.
RECURSIVE JoinComma(_)
JoinComma(arr) ==
    IF Len(arr) = 0 THEN <<>>
    ELSE IF Len(arr) = 1 THEN <<arr[1]>>
    ELSE <<arr[1], ",">> \o JoinComma(Tail(arr))

\* `${outcome['error-codes']}`
ErrorCodesText(outcome) ==
    IF "errorCodes" \in DOMAIN outcome
    THEN JoinComma(outcome.errorCodes)
    ELSE <<"undefined">>

\* ------------------------------------------- the verification provider
ProviderActions == {expectedAction, "other-action"}
ProviderErrorCodes == {<<"invalid-input-response">>,
                       <<"timeout-or-duplicate", "bad-request">>}

\* { success: bool, action?: string, "error-codes"?: [string] }; the
\* property "error-codes" is the field errorCodes.
Outcomes ==
    [success : BOOLEAN]
    \cup [success : BOOLEAN, action : ProviderActions]
    \cup {[success |-> s, errorCodes |-> c] :
             s \in BOOLEAN, c \in ProviderErrorCodes}
    \cup {[success |-> s, action |-> a, errorCodes |-> c] :
             s \in BOOLEAN, a \in ProviderActions, c \in ProviderErrorCodes}

\* What `await fetch(...)` and then `await result.json()` can come to.
Pending == [kind |-> "pending"]
NetworkError == [kind |-> "networkError"]
NotJson == [kind |-> "notJson"]
JsonNull == [kind |-> "jsonNull"]
JsonOutcome(o) == [kind |-> "json", json |-> o]
ProviderReplies == {NotJson, JsonNull} \cup {JsonOutcome(o) : o \in Outcomes}

VARIABLES
    pc,         \* revealEmail: where each invocation stands
    formData,   \* revealEmail: the form posted to siteverify
    result,     \* revealEmail: what the invocation's own fetch came to
    outcome,    \* revealEmail: const outcome = await result.json()
    sent,       \* revealEmail: res.status(..).send(..) calls, in order
    log,        \* revealEmail: console.error calls, in order
    hostname,     \* widget: window.location.hostname
    sitekey,      \* widget: const sitekey
    rendered,     \* widget: the options handed to turnstile.render
    wpc,          \* widget: where the token callback stands
    posted,       \* widget: the request posted to /api/email-reveal
    response,     \* widget: const response = await fetch(...)
    widgetResult, \* widget: const result = await parseCFTurnstileResult(..)
    href,         \* widget: emailAnchor.href
    display       \* widget: turnstileContainer.style.display

serverVars == <<pc, formData, result, outcome, sent, log>>
widgetVars == <<hostname, sitekey, rendered, wpc, posted, response,
                widgetResult, href, display>>
vars == <<serverVars, widgetVars>>

NoForm == [secret |-> Undefined, response |-> Undefined]
NoOutcome == [none |-> TRUE]

Response(status, body) == [status |-> status, body |-> body]

MismatchLog ==
    <<"Reveal email failed: CF Turnstile succeeds but action doesn't match expected action">>
FailedLog(o) == <<"Reveal email failed: CF Turnstile failed: ">> \o ErrorCodesText(o)

\* Decide with `||` in place of `&&` in the first condition.
DecideOr(o) ==
    IF Truthy(o, "success") \/ Get(o, "action") = expectedAction
    THEN [sent |-> <<Response(200, [success |-> TRUE, email |-> CONTACT_EMAIL])>>,
          log  |-> <<MismatchLog>>]
    ELSE IF Get(o, "action") # expectedAction
    THEN [sent |-> <<Response(403, [success |-> FALSE,
                       error |-> "Actual action does not match expected action"])>>,
          log  |-> <<>>]
    ELSE [sent |-> <<Response(500, [success |-> FALSE,
                       error |-> "Internal server error"])>>,
          log  |-> <<FailedLog(o)>>]

\* Decide reading an environment variable that is not set.
DecideNoEmail(o) ==
    IF Truthy(o, "success") /\ Get(o, "action") = expectedAction
    THEN [sent |-> <<Response(200, [success |-> TRUE, email |-> Undefined])>>,
          log  |-> <<MismatchLog>>]
    ELSE IF Get(o, "action") # expectedAction
    THEN [sent |-> <<Response(403, [success |-> FALSE,
                       error |-> "Actual action does not match expected action"])>>,
          log  |-> <<>>]
    ELSE [sent |-> <<Response(500, [success |-> FALSE,
                       error |-> "Internal server error"])>>,
          log  |-> <<FailedLog(o)>>]

\* Decide with `===` in place of `!==` in the else-if.
DecideElseIfInverted(o) ==
    IF Truthy(o, "success") /\ Get(o, "action") = expectedAction
    THEN [sent |-> <<Response(200, [success |-> TRUE, email |-> CONTACT_EMAIL])>>,
          log  |-> <<MismatchLog>>]
    ELSE IF Get(o, "action") = expectedAction
    THEN [sent |-> <<Response(403, [success |-> FALSE,
                       error |-> "Actual action does not match expected action"])>>,
          log  |-> <<>>]
    ELSE [sent |-> <<Response(500, [success |-> FALSE,
                       error |-> "Internal server error"])>>,
          log  |-> <<FailedLog(o)>>]

\* The if / else if / else of revealEmail: the responses sent and the
\* entries logged for a parsed outcome.
Decide(o) ==
    IF Truthy(o, "success") /\ Get(o, "action") = expectedAction
    THEN [sent |-> <<Response(200, [success |-> TRUE, email |-> CONTACT_EMAIL])>>,
          log  |-> <<MismatchLog>>]
    ELSE IF Get(o, "action") # expectedAction
    THEN [sent |-> <<Response(403, [success |-> FALSE,
                       error |-> "Actual action does not match expected action"])>>,
          log  |-> <<>>]
    ELSE [sent |-> <<Response(500, [success |-> FALSE,
                       error |-> "Internal server error"])>>,
          log  |-> <<FailedLog(o)>>]

\* OwnOutcome with `result` held at module scope: an invocation that
\* resumes reads the reply of whichever invocation is awaiting its body.
SharedOutcome(r) ==
    result[CHOOSE q \in Requests : pc[q] = "awaitJson" /\ result[q].kind = "json"].json

\* The body of the invocation's own fetch result, as parsed by result.json().
OwnOutcome(r) == result[r].json

ServerInit ==
    /\ pc = [r \in Requests |-> "idle"]
    /\ formData = [r \in Requests |-> NoForm]
    /\ result = [r \in Requests |-> Pending]
    /\ outcome = [r \in Requests |-> NoOutcome]
    /\ sent = [r \in Requests |-> <<>>]
    /\ log = [r \in Requests |-> <<>>]

\* Lines 3-15: the request arrives, the form is built and the fetch issued.
Receive(r) ==
    /\ pc[r] = "idle"
    /\ \E token \in Tokens :
         formData' = [formData EXCEPT ![r] =
                         [secret |-> cfTurnstileSecretKey, response |-> token]]
    /\ pc' = [pc EXCEPT ![r] = "awaitFetch"]
    /\ UNCHANGED <<result, outcome, sent, log, widgetVars>>

\* Line 12: the fetch resolves with the provider's reply.
FetchResolve(r) ==
    /\ pc[r] = "awaitFetch"
    /\ \E reply \in ProviderReplies : result' = [result EXCEPT ![r] = reply]
    /\ pc' = [pc EXCEPT ![r] = "awaitJson"]
    /\ UNCHANGED <<formData, outcome, sent, log, widgetVars>>

\* Line 12: the fetch rejects; nothing catches it.
FetchReject(r) ==
    /\ pc[r] = "awaitFetch"
    /\ result' = [result EXCEPT ![r] = NetworkError]
    /\ pc' = [pc EXCEPT ![r] = "threw"]
    /\ UNCHANGED <<formData, outcome, sent, log, widgetVars>>

\* Line 18: result.json() rejects on a body that is not JSON.
JsonReject(r) ==
    /\ pc[r] = "awaitJson"
    /\ result[r] = NotJson
    /\ pc' = [pc EXCEPT ![r] = "threw"]
    /\ UNCHANGED <<formData, result, outcome, sent, log, widgetVars>>

\* Lines 18-20: the body parses to null; outcome.success is a TypeError.
JsonNullThrows(r) ==
    /\ pc[r] = "awaitJson"
    /\ result[r] = JsonNull
    /\ pc' = [pc EXCEPT ![r] = "threw"]
    /\ UNCHANGED <<formData, result, outcome, sent, log, widgetVars>>

\* Lines 18-28: the body parses to an object and the decision runs.
JsonResolve(r) ==
    /\ pc[r] = "awaitJson"
    /\ result[r].kind = "json"
    /\ LET o == OwnOutcome(r) IN
         /\ outcome' = [outcome EXCEPT ![r] = o]
         /\ sent' = [sent EXCEPT ![r] = sent[r] \o Decide(o).sent]
         /\ log' = [log EXCEPT ![r] = log[r] \o Decide(o).log]
    /\ pc' = [pc EXCEPT ![r] = "done"]
    /\ UNCHANGED <<formData, result, widgetVars>>

ServerNext ==
    \E r \in Requests :
        \/ Receive(r)
        \/ FetchResolve(r)
        \/ FetchReject(r)
        \/ JsonReject(r)
        \/ JsonNullThrows(r)
        \/ JsonResolve(r)

\* ------------------------------------------------------------ the widget
Hostnames == {"www.powerium.io", "blog.powerium.io", "localhost"}

\* client.js lines 4-7
SitekeyFor(h) ==
    IF h = "www.powerium.io" THEN "0x4AAAAAAAQ3M_-Iq3x2fswz"
    ELSE "0x4AAAAAAAQ3UBXJ3dlYJlAZ"

\* `${v}` of a string or of undefined
Str(v) == IF v = Undefined THEN "undefined" ELSE v

StatusStr(n) ==
    CASE n = 200 -> "200" [] n = 403 -> "403" [] n = 500 -> "500"
      [] n = 502 -> "502" [] OTHER -> "0"

StatusText(n) ==
    CASE n = 200 -> "OK" [] n = 403 -> "Forbidden"
      [] n = 500 -> "Internal Server Error" [] n = 502 -> "Bad Gateway"
      [] OTHER -> ""

\* Bodies on the wire: text that is not JSON, the JSON value null, or a
\* JSON object.
Malformed == [kind |-> "malformed"]
NullBody == [kind |-> "null"]
ObjectBody(j) == [kind |-> "object", json |-> j]

HttpResponse(status, body) ==
    [status |-> status, statusText |-> StatusText(status), body |-> body]

\* Every response revealEmail can send, as the widget's fetch sees it.
EndpointResponses ==
    {HttpResponse(Decide(o).sent[1].status, ObjectBody(Decide(o).sent[1].body)) :
        o \in Outcomes}

\* What else can come back from /api/email-reveal: the platform's answer
\* to a handler that threw, a gateway error page, and JSON of another shape.
OtherResponses ==
    {HttpResponse(500, Malformed),
     HttpResponse(502, Malformed),
     HttpResponse(200, NullBody),
     HttpResponse(200, ObjectBody([message |-> "ok"])),
     HttpResponse(200, ObjectBody([success |-> TRUE])),
     HttpResponse(500, ObjectBody([success |-> FALSE]))}

WireResponses == EndpointResponses \cup OtherResponses

Returned(v) == [kind |-> "returned", value |-> v]
Threw(e) == [kind |-> "threw", error |-> e]
NotCalled == [kind |-> "notCalled"]

\* client.js lines 37-60
parseCFTurnstileResult(resp) ==
    IF resp.body.kind = "malformed"
    THEN Returned([success |-> FALSE,
                   error |-> <<"Failed to communicate with Turnstile verification backend: ",
                               StatusStr(resp.status), " ", resp.statusText, ".">>])
    ELSE IF resp.body.kind = "null"
    THEN Threw("TypeError")
    ELSE LET responseJson == resp.body.json IN
         IF Truthy(responseJson, "success")
         THEN Returned([success |-> TRUE, email |-> Get(responseJson, "email")])
         ELSE Returned([success |-> FALSE,
                        error |-> <<"Failed to retrieve email address: ",
                                    Str(Get(responseJson, "error")), ".">>])

\* HrefFor without the test of result.success.
HrefMailtoAlways(res) == <<"mailto:", Str(Get(res, "email"))>>

\* client.js lines 25-30: the link target for a parse result
HrefFor(res) ==
    IF res.success
    THEN <<"mailto:", Str(res.email)>>
    ELSE LET notice == <<"Failed to retrieve email address: ">> \o res.error
         IN <<"javascript:alert('">> \o notice \o <<"');">>

InitialHref == <<>>
NoRequest == [url |-> Undefined, method |-> Undefined, token |-> Undefined]
NoResponse == [status |-> 0, statusText |-> "", body |-> [kind |-> "none"]]
NotRendered == [sitekey |-> Undefined, action |-> Undefined, size |-> Undefined]

WidgetInit ==
    /\ hostname \in Hostnames
    /\ sitekey = SitekeyFor(hostname)
    /\ rendered = NotRendered
    /\ wpc = "loaded"
    /\ posted = NoRequest
    /\ response = NoResponse
    /\ widgetResult = NotCalled
    /\ href = InitialHref
    /\ display = ""

\* client.js lines 9-13: the library calls window.onloadTurnstileCallback.
OnloadTurnstileCallback ==
    /\ wpc = "loaded"
    /\ rendered' = [sitekey |-> sitekey, action |-> "email-reveal", size |-> "compact"]
    /\ wpc' = "rendered"
    /\ UNCHANGED <<hostname, sitekey, posted, response, widgetResult, href, display>>
    /\ UNCHANGED serverVars

\* client.js lines 14-21: the library hands over a token; the POST is issued.
TokenCallback ==
    /\ wpc = "rendered"
    /\ \E token \in Tokens :
         posted' = [url |-> "/api/email-reveal", method |-> "POST", token |-> token]
    /\ wpc' = "awaitFetch"
    /\ UNCHANGED <<hostname, sitekey, rendered, response, widgetResult, href, display>>
    /\ UNCHANGED serverVars

\* client.js line 15: the POST resolves with some response.
WidgetFetchResolve ==
    /\ wpc = "awaitFetch"
    /\ \E resp \in WireResponses : response' = resp
    /\ wpc' = "awaitJson"
    /\ UNCHANGED <<hostname, sitekey, rendered, posted, widgetResult, href, display>>
    /\ UNCHANGED serverVars

\* client.js line 15: the POST rejects; nothing catches it.
WidgetFetchReject ==
    /\ wpc = "awaitFetch"
    /\ wpc' = "threw"
    /\ UNCHANGED <<hostname, sitekey, rendered, posted, response, widgetResult,
                   href, display>>
    /\ UNCHANGED serverVars

\* client.js lines 23, 37-60: response.json() settles and
\* parseCFTurnstileResult returns or throws.
WidgetParse ==
    /\ wpc = "awaitJson"
    /\ widgetResult' = parseCFTurnstileResult(response)
    /\ wpc' = IF widgetResult'.kind = "returned" THEN "awaitParse" ELSE "threw"
    /\ UNCHANGED <<hostname, sitekey, rendered, posted, response, href, display>>
    /\ UNCHANGED serverVars

\* client.js lines 25-32: the callback resumes with the parse result.
WidgetResume ==
    /\ wpc = "awaitParse"
    /\ href' = HrefFor(widgetResult.value)
    /\ display' = "none"
    /\ wpc' = "done"
    /\ UNCHANGED <<hostname, sitekey, rendered, posted, response, widgetResult>>
    /\ UNCHANGED serverVars

WidgetNext ==
    \/ OnloadTurnstileCallback
    \/ TokenCallback
    \/ WidgetFetchResolve
    \/ WidgetFetchReject
    \/ WidgetParse
    \/ WidgetResume

Init == ServerInit /\ WidgetInit

Spec == Init /\ [][ServerNext]_vars

WidgetSpec == Init /\ [][WidgetNext]_vars

\* The promises of the widget settle and their continuations run.
WidgetFairSpec ==
    /\ WidgetSpec
    /\ WF_vars(WidgetFetchResolve \/ WidgetFetchReject)
    /\ WF_vars(WidgetParse)
    /\ WF_vars(WidgetResume)

\* ----------------------------------------------------------- properties
Verified(o) ==
    /\ "success" \in DOMAIN o /\ o.success
    /\ "action" \in DOMAIN o /\ o.action = expectedAction

Failed(o) == "success" \in DOMAIN o /\ ~o.success

ActionOf(o) == IF "action" \in DOMAIN o THEN o.action ELSE Undefined

BodyHasEmail(body) ==
    \/ "email" \in DOMAIN body /\ body.email = CONTACT_EMAIL
    \/ "error" \in DOMAIN body /\ body.error = CONTACT_EMAIL

Disclosed(r) == \E i \in 1..Len(sent[r]) : BodyHasEmail(sent[r][i].body)

TextHasEmail(text) == \E i \in 1..Len(text) : text[i] = CONTACT_EMAIL

MismatchError == "Actual action does not match expected action"

\* C1: the configured email appears only in a response sent when
\* outcome.success is true and outcome.action is "email-reveal"; it is in
\* no 403 or 500 response and in no log entry.
C1_EmailOnlyWhenVerified ==
    \A r \in Requests :
        /\ \A i \in 1..Len(sent[r]) :
              BodyHasEmail(sent[r][i].body) =>
                  /\ sent[r][i].status = 200
                  /\ pc[r] = "done"
                  /\ Verified(outcome[r])
        /\ \A i \in 1..Len(log[r]) : ~TextHasEmail(log[r][i])

C1_Witness ==
    \E r, q \in Requests :
        /\ Disclosed(r)
        /\ pc[q] = "done" /\ ~Verified(outcome[q])
        /\ sent[q] # <<>> /\ log[q] # <<>>

\* C2: a verified outcome with the expected action is answered with status
\* 200 and a body with success true, the configured email and no error.
C2_VerifiedGetsEmail ==
    \A r \in Requests :
        (pc[r] = "done" /\ Verified(outcome[r])) =>
            /\ Len(sent[r]) = 1
            /\ sent[r][1].status = 200
            /\ sent[r][1].body.success = TRUE
            /\ "email" \in DOMAIN sent[r][1].body
            /\ sent[r][1].body.email = CONTACT_EMAIL
            /\ "error" \notin DOMAIN sent[r][1].body

C2_Witness ==
    \E r \in Requests : pc[r] = "done" /\ Verified(outcome[r]) /\ sent[r] # <<>>

\* C3: success true with an absent or different action is answered with
\* status 403, success false and the action-mismatch error, without the
\* email.
C3_MismatchGets403 ==
    \A r \in Requests :
        (pc[r] = "done" /\ ~Failed(outcome[r]) /\ ActionOf(outcome[r]) # expectedAction) =>
            /\ Len(sent[r]) = 1
            /\ sent[r][1].status = 403
            /\ sent[r][1].body.success = FALSE
            /\ sent[r][1].body.error = MismatchError
            /\ ~BodyHasEmail(sent[r][1].body)

C3_Witness ==
    \E r, q \in Requests :
        /\ pc[r] = "done" /\ ~Failed(outcome[r]) /\ ActionOf(outcome[r]) = Undefined
        /\ pc[q] = "done" /\ ~Failed(outcome[q]) /\ ActionOf(outcome[q]) = "other-action"
        /\ sent[r] # <<>> /\ sent[q] # <<>>

TransportFailed(r) ==
    \/ result[r] = NetworkError
    \/ result[r] = NotJson /\ pc[r] # "awaitJson"

\* C5: when the fetch rejects or the provider's body is not JSON, the
\* handler still completes by sending status 500 with success false and no
\* email, and does not end in an uncaught exception.
C5_TransportFailureAnswered ==
    \A r \in Requests :
        TransportFailed(r) =>
            /\ pc[r] = "done"
            /\ Len(sent[r]) = 1
            /\ sent[r][1].status = 500
            /\ sent[r][1].body.success = FALSE
            /\ ~BodyHasEmail(sent[r][1].body)

\* C9: a log entry is emitted for every outcome with success true and a
\* mismatching action, and for every outcome with success false, the
\* latter carrying the provider's error codes.
C9_DiagnosticsLogged ==
    \A r \in Requests :
        /\ (pc[r] = "done" /\ ~Failed(outcome[r]) /\ ActionOf(outcome[r]) # expectedAction)
              => \E i \in 1..Len(log[r]) : log[r][i] = MismatchLog
        /\ (pc[r] = "done" /\ Failed(outcome[r]))
              => \E i \in 1..Len(log[r]) : log[r][i] = FailedLog(outcome[r])

OwnReplyVerified(r) == result[r].kind = "json" /\ Verified(result[r].json)

\* C10: under any interleaving, the response to a request is determined by
\* the provider's reply to that request's own fetch: the email is disclosed
\* to r only if r's own reply is verified, two requests with the same reply
\* get the same response, and nothing is sent before r's own reply is
\* parsed.
C10_OwnOutcomeOnly ==
    \A r \in Requests :
        /\ Disclosed(r) => OwnReplyVerified(r)
        /\ (pc[r] = "done" /\ OwnReplyVerified(r)) => Disclosed(r)
        /\ pc[r] # "done" => sent[r] = <<>> /\ log[r] = <<>>
        /\ \A q \in Requests :
              (pc[r] = "done" /\ pc[q] = "done" /\ result[r] = result[q])
                  => sent[r] = sent[q] /\ log[r] = log[q]

C10_Witness ==
    \E r, q \in Requests :
        /\ r # q
        /\ pc[r] = "done" /\ ~Disclosed(r) /\ sent[r] # <<>>
        /\ pc[q] = "awaitJson" /\ OwnReplyVerified(q)

IsMailto(h) == Len(h) > 0 /\ h[1] = "mailto:"

IsAlert(h) == Len(h) > 1 /\ h[1] = "javascript:alert('" /\ h[Len(h)] = "');"

\* C6: the link target is a mailto URI built from the returned email only
\* when the parse result has success true; for a failure result it is the
\* alert value carrying the error message, never a mailto link.
C6_MailtoOnlyOnSuccess ==
    /\ IsMailto(href) =>
          /\ widgetResult.kind = "returned"
          /\ widgetResult.value.success
          /\ href = <<"mailto:", Str(widgetResult.value.email)>>
    /\ (wpc = "done" /\ ~widgetResult.value.success) =>
          /\ IsAlert(href)
          /\ ~IsMailto(href)
          /\ SubSeq(href, Len(href) - Len(widgetResult.value.error), Len(href) - 1)
                = widgetResult.value.error

C6_Witness ==
    /\ wpc = "done"
    /\ response.status = 403
    /\ ~widgetResult.value.success
    /\ IsAlert(href)

LacksSuccess(resp) ==
    \/ resp.body.kind = "null"
    \/ resp.body.kind = "object" /\ "success" \notin DOMAIN resp.body.json

\* C7: parseCFTurnstileResult never throws; for a body that is malformed
\* JSON, or valid JSON without a "success" field (null included), it
\* returns a failure object {success: false, error: ...}.
C7_ParseNeverThrows ==
    /\ widgetResult.kind # "threw"
    /\ (widgetResult.kind = "returned"
          /\ (response.body.kind = "malformed" \/ LacksSuccess(response))) =>
          /\ widgetResult.value.success = FALSE
          /\ "error" \in DOMAIN widgetResult.value

\* C8: once the token callback is invoked the widget eventually ends with
\* its container hidden, on every path of the exchange.
C8_EventuallyHidden == (wpc = "awaitFetch") ~> (wpc = "done" /\ display = "none")
====
